---- MODULE Spec2Model ----
(***************************************************************************)
(* A model of the HTTP client of src/index.js: the retrying transport      *)
(* _fetch, Fetcher.fetch with its metrics span, slow-call warning, body    *)
(* drain and buffered accessors, and the tracker registration              *)
(* collectDefaultMetrics.                                                  *)
(*                                                                         *)
(* An action is one event of the event loop together with the            *)
(* continuations it runs up to the next wait for I/O: a fetch call waits   *)
(* for the transport at pc "awaitFetch" (line 11) and for the body at pc   *)
(* "awaitBuffer" (line 58), and is over at pc "returned" or "failed".      *)
(***************************************************************************)
EXTENDS Integers, Sequences, FiniteSets, TLC

----------------------------------------------------------------------------
(* Bounds of the model *)

\* MaxRetries is drawn from 1 .. MaxRetriesBound
MaxRetriesBound == 3
\* the clock runs over 0 .. MaxTime (whole seconds, as process.hrtime()[0])
MaxTime == 3
\* accessor calls (text / json / buffer) a caller makes on one response
MaxReads == 3
\* the clock of the specification of concurrent calls runs over
\* 0 .. ConcurrentMaxTime
ConcurrentMaxTime == 1

\* the fetch calls that may be in flight together
Calls == {"c1", "c2"}

----------------------------------------------------------------------------
(* Constants of ./constants (required at line 4) *)

TimeoutErrorString == "request-timeout"
WarnAfterSeconds == 2
DefaultRequestOptions == [method |-> "GET"]
DefaultMethod == "GET"

----------------------------------------------------------------------------
(* Inputs *)

GoodUrl == "https://api.example.com/items"
BadUrl == "items"
Urls == {GoodUrl, BadUrl}

\* new URL(url) throws a TypeError unless url is an absolute URL; node-fetch
\* rejects such a url, too
UrlIsValid(u) == u = GoodUrl
UrlHost(u) == IF u = GoodUrl THEN "api.example.com" ELSE ""

\* option objects a caller passes; <<>> is "no options" (undefined or {})
OptionInputs ==
    { <<>>,
      [skipTrackRequest |-> TRUE],
      [method |-> "POST", skipTrackRequest |-> FALSE] }

\* err.type of the errors the transport rejects with
TransportErrorTypes == {TimeoutErrorString, "system"}
\* err.type of the errors response.buffer() rejects with
BodyErrorTypes == {"body-timeout"}

Statuses == {200, 500}

\* response bodies, as bytes: "{}", "7", "{" and the two bytes of U+00E9
BodyBytes == { <<123, 125>>, <<55>>, <<123>>, <<195, 169>> }

----------------------------------------------------------------------------
(* Values *)

NoError == [kind |-> "none", type |-> "none", attempt |-> 0]
NoResponse == [status |-> 0, body |-> <<>>, attempt |-> 0]

\* the error of transport attempt n: one object per attempt
TransportError(t, n) == [kind |-> "transport", type |-> t, attempt |-> n]
\* the TypeError of new URL(url)
UrlError == [kind |-> "url", type |-> "TypeError", attempt |-> 0]
BodyError(t) == [kind |-> "body", type |-> t, attempt |-> 0]

\* error.message: the text of the error, one per error object
Message(e) == <<e.kind, e.type, e.attempt>>

----------------------------------------------------------------------------
VARIABLES
    MaxRetries,      \* constants.MaxRetries
    metricsTracker,  \* line 7: "null" until collectDefaultMetrics
    now,             \* the clock, in whole seconds
    calls            \* the fetch calls, one record each

vars == <<MaxRetries, metricsTracker, now, calls>>

IdleCall ==
    [ pc |-> "idle",
      url |-> "",
      passedOptions |-> <<>>,       \* the options argument, as the caller passed it
      options |-> <<>>,             \* the caller's object
      mergedOptions |-> <<>>,
      sent |-> <<>>,                \* the options of each transport request
      shouldTrackRequest |-> FALSE,
      trackerAtStart |-> "null",    \* metricsTracker as line 29 read it
      startTime |-> 0,
      endTime |-> 0,                \* endTime[0] of line 50 or 71, the latest
      retries |-> 0,                \* the retries parameter of the live _fetch frame
      attempts |-> 0,               \* transport requests issued
      outstanding |-> 0,            \* transport requests not yet completed
      timeoutAt |-> 0,              \* the attempt that failed with a timeout, 0 if none
      lastError |-> NoError,        \* the error of the latest failed attempt
      transportResponse |-> NoResponse, \* what the transport resolved with
      response |-> NoResponse,      \* the variable response of line 32
      error |-> NoError,            \* the error in flight or thrown to the caller
      bodyReads |-> 0,              \* reads of the transport's body stream
      replaced |-> {},              \* the accessors lines 59-67 have replaced
      buffer |-> <<>>,
      labels |-> <<>>,              \* currentRequestLabels
      handleResultCalls |-> 0,
      observations |-> <<>>,        \* label sets observed in the histogram
      warnLog |-> <<>>,
      errorLog |-> <<>>,
      steps |-> <<>>,               \* the order of the steps of the call
      nReads |-> 0,                 \* accessor calls of the caller
      results |-> [text |-> {}, json |-> {}, buffer |-> {}] ] \* what they returned

Set(c, r) == calls' = [calls EXCEPT ![c] = r]

----------------------------------------------------------------------------
(* _fetch, lines 9-20 *)

\* line 14
ShouldRetryExclusive(retries, err) ==
    retries < MaxRetries - 1 /\ err.type # TimeoutErrorString
ShouldRetryOffByOne(retries, err) ==
    retries <= MaxRetries /\ err.type # TimeoutErrorString
ShouldRetryTimeouts(retries, err) == retries < MaxRetries
\* one counter for the module instead of one per call
ShouldRetryShared(retries, err) ==
    /\ calls["c1"].attempts + calls["c2"].attempts < MaxRetries
    /\ err.type # TimeoutErrorString
ShouldRetry(retries, err) ==
    retries < MaxRetries /\ err.type # TimeoutErrorString

----------------------------------------------------------------------------
(* Fetcher._setDefaultOptions, lines 77-80: Object.assign({}, defaults, options) *)

ObjectAssign(a, b) ==
    [k \in (DOMAIN a) \cup (DOMAIN b) |-> IF k \in DOMAIN b THEN b[k] ELSE a[k]]

_setDefaultOptions(options) == ObjectAssign(ObjectAssign(<<>>, DefaultRequestOptions), options)

\* line 78: the caller's object and the merged object after Object.assign
AssignDefaultsIntoCaller(options) ==
    LET m == ObjectAssign(options, DefaultRequestOptions)
    IN [caller |-> m, merged |-> m]
AssignDefaults(options) ==
    [caller |-> options, merged |-> _setDefaultOptions(options)]

\* line 29
SkipTrackRequest(m) == "skipTrackRequest" \in DOMAIN m /\ m.skipTrackRequest
ShouldTrackIgnoringSkip(m, tracker) == tracker # "null"
ShouldTrackWithoutTracker(m, tracker) == ~SkipTrackRequest(m)
ShouldTrack(m, tracker) == ~SkipTrackRequest(m) /\ tracker # "null"

\* lines 35-38
RequestLabels(u, m) ==
    [ target |-> UrlHost(u),
      method |-> IF "method" \in DOMAIN m THEN m.method ELSE DefaultMethod ]

\* line 51
IsSlow(seconds) == seconds >= WarnAfterSeconds

\* lines 52 and 72: the log lines
WarnLine(u, seconds) == [url |-> u, seconds |-> seconds]
ErrorLine(u, e, seconds) == [url |-> u, message |-> Message(e), seconds |-> seconds]

----------------------------------------------------------------------------
(* The metrics collaborator (nodejs-metrics): trackHistogramDuration runs  *)
(* the action, lets handleResult (line 44) add the status code to the     *)
(* labels of a result, or labels the error of a failed action, and         *)
(* observes the duration once under the final labels.                      *)

\* line 44
HandleResultNoStatus(labels, result) == labels
HandleResult(labels, result) == ObjectAssign(labels, [statusCode |-> result.status])

TrackResolved(r, result) ==
    LET final == HandleResult(r.labels, result)
    IN [r EXCEPT !.labels = final,
                 !.handleResultCalls = @ + 1,
                 !.observations = Append(@, final),
                 !.steps = Append(@, "observe")]

TrackRejected(r, err) ==
    LET final == ObjectAssign(r.labels, [error |-> err.type])
    IN [r EXCEPT !.labels = final,
                 !.observations = Append(@, final),
                 !.steps = Append(@, "observe")]

----------------------------------------------------------------------------
(* Fetcher.fetch, lines 27-75 *)

\* lines 70-74
CatchBlockSilent(r, err) ==
    [r EXCEPT !.endTime = now - r.startTime, !.error = err, !.pc = "failed"]
CatchBlock(r, err) ==
    [r EXCEPT !.endTime = now - r.startTime,
              !.errorLog = Append(@, ErrorLine(r.url, err, now - r.startTime)),
              !.steps = Append(@, "error"),
              !.error = err,
              !.pc = "failed"]

\* lines 50-53
SlowCheck(r) ==
    LET seconds == now - r.startTime
    IN IF IsSlow(seconds)
       THEN [r EXCEPT !.endTime = seconds,
                      !.warnLog = Append(@, WarnLine(r.url, seconds)),
                      !.steps = Append(@, "warn")]
       ELSE [r EXCEPT !.endTime = seconds]

\* line 58: response.buffer() starts reading the transport's body stream
StartDrain(r) ==
    [r EXCEPT !.bodyReads = @ + 1, !.steps = Append(@, "drain"), !.pc = "awaitBuffer"]

\* the await of line 40 or 47 resolves with result: lines 40-58
CallResolvedNoSpan(r, result) == StartDrain(SlowCheck([r EXCEPT !.response = result]))
CallResolvedDrainFirst(r, result) ==
    LET tracked == IF r.shouldTrackRequest THEN TrackResolved(r, result) ELSE r
    IN SlowCheck(StartDrain([tracked EXCEPT !.response = result]))
CallResolvedRereadsTracker(r, result) ==
    LET tracked == IF metricsTracker # "null" /\ ~SkipTrackRequest(r.mergedOptions)
                   THEN TrackResolved(r, result) ELSE r
    IN StartDrain(SlowCheck([tracked EXCEPT !.response = result]))
CallResolvedThrowsOn5xx(r, result) ==
    LET tracked == IF r.shouldTrackRequest THEN TrackResolved(r, result) ELSE r
    IN IF result.status >= 500
       THEN CatchBlock(tracked, [kind |-> "status", type |-> "http", attempt |-> result.attempt])
       ELSE StartDrain(SlowCheck([tracked EXCEPT !.response = result]))
CallResolved(r, result) ==
    LET tracked == IF r.shouldTrackRequest THEN TrackResolved(r, result) ELSE r
    IN StartDrain(SlowCheck([tracked EXCEPT !.response = result]))

\* the await of line 40 or 47 rejects with err: lines 40-47, then 70-74
CallRejected(r, err) ==
    LET tracked == IF r.shouldTrackRequest THEN TrackRejected(r, err) ELSE r
    IN CatchBlock(tracked, err)

\* line 11 of a _fetch frame: one request to the transport
IssueRequestTwice(r) ==
    [r EXCEPT !.attempts = @ + 2, !.outstanding = @ + 2,
              !.sent = @ \o <<r.mergedOptions, r.mergedOptions>>,
              !.steps = @ \o <<"attempt", "attempt">>]
IssueRequestLost(r) == r
IssueRequest(r) ==
    [r EXCEPT !.attempts = @ + 1, !.outstanding = @ + 1,
              !.sent = Append(@, r.mergedOptions),
              !.steps = Append(@, "attempt")]

\* lines 27-47, up to the first await
Fetch(c, u, o) ==
    /\ calls[c].pc = "idle"
    /\ LET merge == AssignDefaults(o)
           m == merge.merged
           track == ShouldTrack(m, metricsTracker)
           r == [calls[c] EXCEPT !.url = u,
                                 !.passedOptions = o,
                                 !.options = merge.caller,
                                 !.mergedOptions = m,
                                 !.trackerAtStart = metricsTracker,
                                 !.shouldTrackRequest = track,
                                 !.startTime = now]
       IN IF track /\ ~UrlIsValid(u)
          THEN \* new URL(url) of line 36 throws
               Set(c, CatchBlock(r, UrlError))
          ELSE Set(c, IssueRequest(
                   [r EXCEPT !.labels = IF track THEN RequestLabels(u, m) ELSE <<>>,
                             !.retries = 1,
                             !.pc = "awaitFetch"]))
    /\ UNCHANGED <<MaxRetries, metricsTracker, now>>

\* line 11 resolves: lines 12, then 40-58
TransportResolves(c, status, body) ==
    /\ calls[c].pc = "awaitFetch"
    /\ calls[c].outstanding > 0
    /\ UrlIsValid(calls[c].url)
    /\ LET r == calls[c]
           result == [status |-> status, body |-> body, attempt |-> r.attempts]
       IN Set(c, CallResolved([r EXCEPT !.outstanding = @ - 1,
                                        !.transportResponse = result], result))
    /\ UNCHANGED <<MaxRetries, metricsTracker, now>>

\* line 11 rejects: lines 13-18, then line 11 again or lines 40-47 and 70-74
TransportRejects(c, t) ==
    /\ calls[c].pc = "awaitFetch"
    /\ calls[c].outstanding > 0
    /\ IF UrlIsValid(calls[c].url) THEN t \in TransportErrorTypes ELSE t = "TypeError"
    /\ LET r == calls[c]
           err == TransportError(t, r.attempts)
           seen == [r EXCEPT !.outstanding = @ - 1,
                             !.lastError = err,
                             !.timeoutAt = IF t = TimeoutErrorString /\ @ = 0
                                           THEN r.attempts ELSE @]
       IN IF ShouldRetry(r.retries, err)
          THEN Set(c, IssueRequest([seen EXCEPT !.retries = @ + 1]))
          ELSE Set(c, CallRejected(seen, err))
    /\ UNCHANGED <<MaxRetries, metricsTracker, now>>

\* lines 59-67
ReplaceAccessorsButText(r, buf) == [r EXCEPT !.buffer = buf, !.replaced = {"json", "buffer"}]
ReplaceAccessors(r, buf) ==
    [r EXCEPT !.buffer = buf, !.replaced = {"text", "json", "buffer"}]

\* line 58 resolves: lines 59-69
BufferResolves(c) ==
    /\ calls[c].pc = "awaitBuffer"
    /\ LET r == ReplaceAccessors(calls[c], calls[c].response.body)
       IN Set(c, [r EXCEPT !.steps = Append(@, "return"), !.pc = "returned"])
    /\ UNCHANGED <<MaxRetries, metricsTracker, now>>

\* line 58 rejects: lines 70-74
BufferRejects(c, t) ==
    /\ calls[c].pc = "awaitBuffer"
    /\ Set(c, CatchBlock(calls[c], BodyError(t)))
    /\ UNCHANGED <<MaxRetries, metricsTracker, now>>

----------------------------------------------------------------------------
(* The accessors of the returned response, lines 59-67 *)

\* buffer.toString(): the UTF-8 decoding of the bytes, as code points
RECURSIVE Utf8Decode(_)
Utf8Decode(b) ==
    IF b = <<>> THEN <<>>
    ELSE IF b[1] < 128 THEN <<b[1]>> \o Utf8Decode(Tail(b))
    ELSE IF b[1] \in 194..223 /\ Len(b) >= 2 /\ b[2] \in 128..191
         THEN <<(b[1] - 192) * 64 + (b[2] - 128)>> \o Utf8Decode(SubSeq(b, 3, Len(b)))
    ELSE <<65533>> \o Utf8Decode(Tail(b))

\* JSON.parse, on the texts "{}", "[]" and the numbers without sign
JsonIsNumber(s) ==
    /\ s # <<>>
    /\ \A i \in 1..Len(s) : s[i] \in 48..57
    /\ Len(s) > 1 => s[1] # 48
JsonType(s) ==
    IF s = <<123, 125>> THEN "object"
    ELSE IF s = <<91, 93>> THEN "array"
    ELSE IF JsonIsNumber(s) THEN "number"
    ELSE "SyntaxError"

\* line 59
TextResult(r) == [ok |-> TRUE, value |-> Utf8Decode(r.buffer)]
\* line 67
BufferResult(r) == [ok |-> TRUE, value |-> r.buffer]
\* lines 60-66: the parsed value, or the Error of line 64
JsonResultBareError(r) ==
    LET text == Utf8Decode(r.buffer)
    IN IF JsonType(text) # "SyntaxError"
       THEN [ok |-> TRUE, type |-> JsonType(text), text |-> text,
             url |-> "", status |-> 0]
       ELSE [ok |-> FALSE, type |-> "SyntaxError", text |-> <<>>,
             url |-> "", status |-> 0]
JsonResult(r) ==
    LET text == Utf8Decode(r.buffer)
    IN IF JsonType(text) # "SyntaxError"
       THEN [ok |-> TRUE, type |-> JsonType(text), text |-> text,
             url |-> "", status |-> 0]
       ELSE [ok |-> FALSE, type |-> "Error", text |-> text,
             url |-> r.url, status |-> r.response.status]

\* an accessor of the transport's response that line 59-67 did not replace
\* reads the body stream, which has been read: node-fetch rejects with
\* "body used already"
StreamResult(r, op) ==
    IF op = "json"
    THEN [ok |-> FALSE, type |-> "TypeError", text |-> <<>>, url |-> "", status |-> 0]
    ELSE [ok |-> FALSE, value |-> <<>>]

\* the caller calls response[op]()
Accessor(c, op, result) ==
    /\ calls[c].pc = "returned"
    /\ calls[c].nReads < MaxReads
    /\ LET r == calls[c]
           got == IF op \in r.replaced THEN result ELSE StreamResult(r, op)
       IN Set(c, [r EXCEPT !.nReads = @ + 1,
                           !.results[op] = @ \cup {got}])
    /\ UNCHANGED <<MaxRetries, metricsTracker, now>>

Text(c) == Accessor(c, "text", TextResult(calls[c]))
Json(c) == Accessor(c, "json", JsonResult(calls[c]))
Buffer(c) == Accessor(c, "buffer", BufferResult(calls[c]))

Init ==
    /\ MaxRetries \in 1..MaxRetriesBound
    /\ metricsTracker = "null"
    /\ now = 0
    /\ calls = [c \in Calls |-> IdleCall]

\* lines 84-96
collectDefaultMetrics ==
    /\ metricsTracker' = "tracker"
    /\ UNCHANGED <<MaxRetries, now, calls>>

\* the clock advances
Tick ==
    /\ now < MaxTime
    /\ now' = now + 1
    /\ UNCHANGED <<MaxRetries, metricsTracker, calls>>

\* the steps of the calls C, with inputs drawn from U and O and transport
\* outcomes from S and B
Step(C, U, O, S, B) ==
    \/ collectDefaultMetrics
    \/ Tick
    \/ \E c \in C, u \in U, o \in O : Fetch(c, u, o)
    \/ \E c \in C, s \in S, b \in B : TransportResolves(c, s, b)
    \/ \E c \in C, t \in TransportErrorTypes \cup {"TypeError"} : TransportRejects(c, t)
    \/ \E c \in C : BufferResolves(c)
    \/ \E c \in C, t \in BodyErrorTypes : BufferRejects(c, t)
    \/ \E c \in C : Text(c)
    \/ \E c \in C : Json(c)
    \/ \E c \in C : Buffer(c)

\* one fetch call, with every input
Next == Step({"c1"}, Urls, OptionInputs, Statuses, BodyBytes)

Spec == Init /\ [][Next]_vars

\* two fetch calls in flight together, tracked or not, with every outcome of
\* the transport
ConcurrentNext ==
    \/ collectDefaultMetrics
    \/ now < ConcurrentMaxTime /\ Tick
    \/ \E c \in Calls : Fetch(c, GoodUrl, <<>>)
    \/ \E c \in Calls, s \in {200}, b \in {<<55>>, <<123>>} : TransportResolves(c, s, b)
    \/ \E c \in Calls, t \in TransportErrorTypes : TransportRejects(c, t)
    \/ \E c \in Calls : BufferResolves(c)
    \/ \E c \in Calls, t \in BodyErrorTypes : BufferRejects(c, t)

ConcurrentSpec == Init /\ [][ConcurrentNext]_vars

\* every transport request and every body read completes: the transport
\* settles the promises of lines 11 and 58
Completes(c) ==
    \/ \E s \in Statuses, b \in BodyBytes : TransportResolves(c, s, b)
    \/ \E t \in TransportErrorTypes \cup {"TypeError"} : TransportRejects(c, t)
    \/ BufferResolves(c)
    \/ \E t \in BodyErrorTypes : BufferRejects(c, t)

\* one fetch call with every kind of outcome, without the clock and the
\* accessor calls of the caller
FairNext ==
    \/ collectDefaultMetrics
    \/ \E u \in Urls, o \in OptionInputs : Fetch("c1", u, o)
    \/ \E s \in Statuses : TransportResolves("c1", s, <<55>>)
    \/ \E t \in TransportErrorTypes \cup {"TypeError"} : TransportRejects("c1", t)
    \/ BufferResolves("c1")
    \/ \E t \in BodyErrorTypes : BufferRejects("c1", t)

FairSpec == Init /\ [][FairNext]_vars /\ WF_vars(Completes("c1"))
----------------------------------------------------------------------------
(* Properties *)

Done(r) == r.pc \in {"returned", "failed"}
\* the transport phase of the call (lines 40-47) is over
CallOver(r) == r.pc \in {"awaitBuffer", "returned", "failed"}
\* every transport attempt so far has failed, none with a timeout
AllFailedNoTimeout(r) ==
    r.attempts >= 1 /\ r.transportResponse = NoResponse /\ r.timeoutAt = 0
SkipsTracking(r) == "skipTrackRequest" \in DOMAIN r.options /\ r.options.skipTrackRequest

\* C1: a call whose every transport attempt fails with a non-timeout error
\* never issues more than MaxRetries requests and, once it has failed, has
\* issued exactly MaxRetries requests and throws the error of attempt
\* number MaxRetries, the last one
C1_ExhaustsMaxRetries ==
    \A c \in Calls :
        LET r == calls[c]
        IN AllFailedNoTimeout(r) =>
              /\ r.attempts <= MaxRetries
              /\ r.pc = "failed" =>
                    /\ r.attempts = MaxRetries
                    /\ r.outstanding = 0
                    /\ r.error.kind = "transport"
                    /\ r.error.attempt = MaxRetries
                    /\ r.error = r.lastError

C1_Witness ==
    \E c \in Calls :
        /\ AllFailedNoTimeout(calls[c])
        /\ calls[c].pc = "failed"
        /\ calls[c].attempts = 3

\* C2: the attempt that fails with a timeout is the last attempt of its call,
\* whatever MaxRetries and the attempt number are: no request follows it, the
\* call has failed with that very timeout error and has logged one error line
C2_TimeoutNeverRetried ==
    \A c \in Calls :
        LET r == calls[c]
        IN r.timeoutAt # 0 =>
              /\ r.attempts = r.timeoutAt
              /\ r.outstanding = 0
              /\ r.pc = "failed"
              /\ r.error = TransportError(TimeoutErrorString, r.timeoutAt)
              /\ Len(r.errorLog) = 1
              /\ r.errorLog[1].message = Message(r.error)

C2_Witness ==
    \E c \in Calls :
        /\ calls[c].timeoutAt = 2
        /\ MaxRetries = 3
        /\ calls[c].pc = "failed"

\* the response of attempt number MaxRetries, after MaxRetries - 1 failures
SucceededAtCeiling(r) ==
    /\ r.transportResponse # NoResponse
    /\ r.transportResponse.attempt = MaxRetries
    /\ r.timeoutAt = 0

\* C3, as stated: a call whose attempt number MaxRetries succeeds after
\* MaxRetries - 1 non-timeout failures returns that response, never fails and
\* logs no error
C3_Original ==
    \A c \in Calls :
        LET r == calls[c]
        IN SucceededAtCeiling(r) =>
              /\ r.pc \in {"awaitBuffer", "returned"}
              /\ r.response = r.transportResponse
              /\ r.errorLog = <<>>

\* C3, amended: a non-timeout failure before attempt number MaxRetries never
\* ends the call, and a call whose attempt number MaxRetries succeeds returns
\* that response without an error line, unless reading the body fails: then
\* the call fails with the error of the body read and logs it once
C3_CeilingInclusive ==
    \A c \in Calls :
        LET r == calls[c]
        IN /\ (r.pc = "failed" /\ AllFailedNoTimeout(r)) => r.error.attempt >= MaxRetries
           /\ SucceededAtCeiling(r) =>
                 /\ r.attempts = MaxRetries
                 /\ r.response = r.transportResponse
                 /\ \/ r.pc \in {"awaitBuffer", "returned"} /\ r.errorLog = <<>>
                    \/ /\ r.pc = "failed"
                       /\ r.error.kind = "body"
                       /\ Len(r.errorLog) = 1

C3_Witness ==
    \E c \in Calls :
        /\ SucceededAtCeiling(calls[c])
        /\ MaxRetries = 3
        /\ calls[c].pc = "returned"
        /\ calls[c].response.attempt = 3

OneBuffer(r, op) ==
    \A x \in r.results[op] : x.ok /\ x.value = IF op = "text" THEN Utf8Decode(r.response.body)
                                                ELSE r.response.body

\* C4: the body stream of a response is read once, by the drain; the
\* accessor calls of the caller read it no more, every text() and buffer()
\* succeeds, json() succeeds on a body that is JSON, and the calls of one
\* accessor all return the same result, that of the body the drain read
C4_BodyReadOnce ==
    \A c \in Calls :
        LET r == calls[c]
        IN /\ r.bodyReads <= 1
           /\ r.nReads > 0 => r.pc = "returned"
           /\ r.pc = "returned" =>
                 /\ r.bodyReads = 1
                 /\ r.buffer = r.transportResponse.body
                 /\ \A op \in {"text", "json", "buffer"} : Cardinality(r.results[op]) <= 1
                 /\ OneBuffer(r, "text")
                 /\ OneBuffer(r, "buffer")
                 /\ \A x \in r.results.json :
                       /\ x.text = Utf8Decode(r.response.body)
                       /\ JsonType(x.text) # "SyntaxError" => x.ok

C4_Witness ==
    \E c \in Calls :
        /\ calls[c].nReads = 3
        /\ calls[c].results.text # {}
        /\ calls[c].results.buffer # {}
        /\ calls[c].results.json = {}
        /\ calls[c].bodyReads = 1

\* C5: a call that fails, at whatever step, has logged exactly one error line,
\* with its url and the message of the error, and throws the error that was
\* raised: the error of the last transport attempt, of new URL or of the body
\* read; a call that has not failed has logged no error line, and no failure
\* ends in a returned response
C5_OneErrorLineSameError ==
    \A c \in Calls :
        LET r == calls[c]
        IN /\ r.pc = "failed" =>
                 /\ Len(r.errorLog) = 1
                 /\ r.errorLog[1].url = r.url
                 /\ r.errorLog[1].message = Message(r.error)
                 /\ \/ r.error.kind = "transport" /\ r.error = r.lastError
                                                  /\ r.transportResponse = NoResponse
                    \/ r.error.kind = "url" /\ r.attempts = 0
                    \/ r.error.kind = "body" /\ r.bodyReads = 1
           /\ r.pc # "failed" => r.errorLog = <<>> /\ r.error = NoError
           /\ r.pc \in {"awaitBuffer", "returned"} => r.transportResponse # NoResponse

C5_Witness ==
    \E c \in Calls :
        /\ calls[c].pc = "failed"
        /\ calls[c].error.kind = "transport"
        /\ calls[c].shouldTrackRequest
        /\ calls[c].attempts = 3

\* C6, as stated: a call over with an elapsed time of WarnAfterSeconds or more
\* has logged exactly one warning, with its url and the seconds, tracked or not
C6_WarnsWhenSlow ==
    \A c \in Calls :
        LET r == calls[c]
        IN (Done(r) /\ r.endTime >= WarnAfterSeconds) =>
              /\ Len(r.warnLog) = 1
              /\ r.warnLog[1].url = r.url

\* C7, as stated: a call that ends in failure after WarnAfterSeconds or more
\* has logged the slow-call warning
C7_WarnsOnFailure ==
    \A c \in Calls :
        LET r == calls[c]
        IN (r.pc = "failed" /\ r.endTime >= WarnAfterSeconds) => r.warnLog # <<>>

\* C8: a call made with skipTrackRequest: true is never tracked: no histogram
\* observation and no result callback, tracker registered or not, whatever
\* the outcome and the number of attempts
C8_SkipTrackNoObservation ==
    \A c \in Calls :
        LET r == calls[c]
        IN (r.pc # "idle" /\ SkipsTracking(r)) =>
              /\ ~r.shouldTrackRequest
              /\ r.observations = <<>>
              /\ r.handleResultCalls = 0

C8_Witness ==
    \E c \in Calls :
        /\ SkipsTracking(calls[c])
        /\ calls[c].trackerAtStart = "tracker"
        /\ calls[c].attempts = 2
        /\ Done(calls[c])

Tracked(r) == r.pc # "idle" /\ r.trackerAtStart = "tracker" /\ ~SkipsTracking(r)

\* C10, as stated: a tracked call results in exactly one observation
C10_Original ==
    \A c \in Calls :
        (Tracked(calls[c]) /\ Done(calls[c])) => Len(calls[c].observations) = 1

\* C10, amended: a tracked call whose url is an absolute URL records no
\* observation while its attempts go on and exactly one when they are over,
\* however many there were; a tracked call whose url new URL() rejects fails
\* before the span, with no transport attempt and no observation
C10_OneObservation ==
    \A c \in Calls :
        LET r == calls[c]
        IN Tracked(r) =>
              /\ r.shouldTrackRequest
              /\ UrlIsValid(r.url) =>
                    /\ r.pc = "awaitFetch" => r.observations = <<>>
                    /\ CallOver(r) => Len(r.observations) = 1
              /\ ~UrlIsValid(r.url) =>
                    /\ r.pc = "failed"
                    /\ r.error = UrlError
                    /\ r.attempts = 0
                    /\ r.observations = <<>>

C10_Witness ==
    \E c \in Calls :
        /\ Tracked(calls[c])
        /\ calls[c].attempts = 3
        /\ calls[c].pc = "returned"
        /\ Len(calls[c].observations) = 1

Malformed(r) == JsonType(Utf8Decode(r.transportResponse.body)) = "SyntaxError"
\* lines 59-67 have run
Drained(r) == r.replaced # {}

\* C11: a drained body that is not JSON does not fail fetch: the response is
\* returned and no error is logged; every json() call fails with an error
\* that carries the url, the status and the text of the body, and text() and
\* buffer() on that response succeed
C11_MalformedJsonDeferred ==
    \A c \in Calls :
        LET r == calls[c]
        IN (Drained(r) /\ Malformed(r)) =>
              /\ r.pc = "returned"
              /\ r.errorLog = <<>>
              /\ r.error = NoError
              /\ \A x \in r.results.json :
                    /\ ~x.ok
                    /\ x.url = r.url
                    /\ x.status = r.transportResponse.status
                    /\ x.text = Utf8Decode(r.transportResponse.body)
              /\ \A x \in r.results.text \cup r.results.buffer : x.ok

C11_Witness ==
    \E c \in Calls :
        /\ Drained(calls[c]) /\ Malformed(calls[c])
        /\ calls[c].results.json # {}
        /\ calls[c].results.text # {}
        /\ calls[c].results.buffer # {}

\* the merge of the defaults and the options o: the values of o, and the
\* defaults for the fields o does not have
IsMergeOf(m, o) ==
    /\ DOMAIN m = (DOMAIN DefaultRequestOptions) \cup (DOMAIN o)
    /\ \A k \in DOMAIN o : m[k] = o[k]
    /\ \A k \in (DOMAIN DefaultRequestOptions) \ (DOMAIN o) : m[k] = DefaultRequestOptions[k]

\* C12: whatever the outcome, the caller's option object stays as it was
\* passed; the defaults are merged into another object, and every transport
\* request of the call receives that merged object
C12_OptionsNotMutated ==
    \A c \in Calls :
        LET r == calls[c]
        IN r.pc # "idle" =>
              /\ r.options = r.passedOptions
              /\ IsMergeOf(r.mergedOptions, r.passedOptions)
              /\ Len(r.sent) = r.attempts
              /\ \A i \in 1..Len(r.sent) : r.sent[i] = r.mergedOptions

C12_Witness ==
    \E c \in Calls :
        /\ calls[c].passedOptions = [method |-> "POST", skipTrackRequest |-> FALSE]
        /\ calls[c].pc = "failed"
        /\ Len(calls[c].sent) = 3

\* what a call's own transport outcomes decide, whatever the other calls do
OwnOutcome(r) ==
    /\ r.attempts <= MaxRetries
    /\ r.pc = "awaitFetch" => r.retries = r.attempts /\ r.outstanding = 1
    /\ (r.pc = "failed" /\ AllFailedNoTimeout(r)) =>
          r.attempts = MaxRetries /\ r.error = r.lastError
    /\ r.timeoutAt # 0 => r.attempts = r.timeoutAt /\ r.pc = "failed"
    /\ r.transportResponse # NoResponse =>
          r.attempts = r.transportResponse.attempt /\ r.response = r.transportResponse
    /\ r.pc = "returned" => r.buffer = r.transportResponse.body
    /\ r.pc # "idle" => r.endTime <= now - r.startTime

\* C13: with two calls in flight and their completions interleaved in any
\* order, a step of one call leaves the record of the other as it is, and the
\* attempts, the outcome, the buffer and the times of each call are those its
\* own transport outcomes decide
C13_CallsIndependent ==
    [][ /\ \A c, d \in Calls : (c # d /\ calls'[c] # calls[c]) => calls'[d] = calls[d]
        /\ \A c \in Calls : OwnOutcome(calls[c])' ]_vars

C13_Witness ==
    /\ calls["c1"].pc = "awaitFetch" /\ calls["c1"].attempts = 3
    /\ calls["c2"].pc = "awaitFetch" /\ calls["c2"].attempts = 2
    /\ calls["c1"].startTime # calls["c2"].startTime

InFlight(r) == r.pc \in {"awaitFetch", "awaitBuffer"}

\* C14: the retry counter of a call in flight is in 1 .. MaxRetries; a call
\* never issues more than MaxRetries transport requests, whatever the
\* failures, and has issued at least one once it is at the transport
C14_RetryCounterRange ==
    \A c \in Calls :
        LET r == calls[c]
        IN /\ InFlight(r) => r.retries \in 1..MaxRetries
           /\ r.attempts <= MaxRetries
           /\ r.retries <= MaxRetries
           /\ (InFlight(r) \/ r.pc = "returned") => r.attempts >= 1
           /\ r.pc = "awaitFetch" => r.attempts = r.retries

C14_Witness ==
    \E c \in Calls :
        /\ calls[c].pc = "awaitFetch"
        /\ calls[c].retries = 3
        /\ MaxRetries = 3

\* C15: a call has at most one transport request outstanding, and request
\* n + 1 is outstanding only when request n has failed, with no timeout
C15_RetriesSequential ==
    \A c \in Calls :
        LET r == calls[c]
        IN /\ r.outstanding <= 1
           /\ r.outstanding = 1 <=> r.pc = "awaitFetch"
           /\ (r.outstanding = 1 /\ r.attempts >= 2) =>
                 /\ r.lastError.kind = "transport"
                 /\ r.lastError.attempt = r.attempts - 1
                 /\ r.lastError.type # TimeoutErrorString

C15_Witness ==
    \E c \in Calls :
        /\ calls[c].outstanding = 1
        /\ calls[c].attempts = 3

Repeat(x, n) == [i \in 1..n |-> x]

\* C16: the steps of a returned call are, in this order: its transport
\* requests, the histogram observation if it is tracked, the warning if the
\* elapsed seconds of line 50 reach WarnAfterSeconds, the drain and the
\* return; the returned response has its body drained, once
C16_StepOrder ==
    \A c \in Calls :
        LET r == calls[c]
        IN r.pc = "returned" =>
              /\ r.steps = Repeat("attempt", r.attempts)
                           \o (IF r.shouldTrackRequest THEN <<"observe">> ELSE <<>>)
                           \o (IF r.endTime >= WarnAfterSeconds THEN <<"warn">> ELSE <<>>)
                           \o <<"drain", "return">>
              /\ r.bodyReads = 1
              /\ r.replaced = {"text", "json", "buffer"}
              /\ Len(r.warnLog) = (IF r.endTime >= WarnAfterSeconds THEN 1 ELSE 0)

C16_Witness ==
    \E c \in Calls :
        /\ calls[c].pc = "returned"
        /\ calls[c].shouldTrackRequest
        /\ calls[c].attempts = 2
        /\ calls[c].warnLog # <<>>

HasStatusCode(labels) == "statusCode" \in DOMAIN labels

\* C17, as stated: handleResult runs at most once per call, only on the
\* response of the retrying transport and with its status, and never in a
\* call that fails
C17_Original ==
    \A c \in Calls :
        LET r == calls[c]
        IN /\ r.handleResultCalls <= 1
           /\ r.handleResultCalls = 1 =>
                 /\ r.transportResponse # NoResponse
                 /\ HasStatusCode(r.labels)
                 /\ r.labels.statusCode = r.transportResponse.status
           /\ r.pc = "failed" => r.handleResultCalls = 0

\* C17, amended: handleResult runs at most once per call, exactly when the
\* retrying transport of a tracked call has returned a response, and with
\* the status of that response; it does not run while attempts fail nor in a
\* call whose transport fails, whose observation has no statusCode label; a
\* call that fails afterwards, in the body read, keeps its statusCode label
C17_StatusCodeOnResponse ==
    \A c \in Calls :
        LET r == calls[c]
        IN /\ r.handleResultCalls <= 1
           /\ r.handleResultCalls = 1 <=>
                 (r.shouldTrackRequest /\ r.transportResponse # NoResponse)
           /\ r.handleResultCalls = 1 =>
                 /\ Len(r.observations) = 1
                 /\ HasStatusCode(r.observations[1])
                 /\ r.observations[1].statusCode = r.transportResponse.status
           /\ r.transportResponse = NoResponse =>
                 \A i \in 1..Len(r.observations) : ~HasStatusCode(r.observations[i])

C17_Witness ==
    \E c \in Calls :
        /\ calls[c].handleResultCalls = 1
        /\ calls[c].attempts = 3
        /\ calls[c].transportResponse.status = 500

\* C18: when every transport request and every body read completes, a call
\* that has started ends, returned or failed
C18_Terminates ==
    \A c \in Calls : (calls[c].pc # "idle") ~> Done(calls[c])

C18_Witness ==
    \E c \in Calls :
        /\ Done(calls[c])
        /\ calls[c].attempts = 3
        /\ calls[c].bodyReads = 1

C20_TrackingDecidedAtStart ==
    [][ /\ metricsTracker' # metricsTracker => calls' = calls
        /\ \A c \in Calls :
              /\ calls[c].pc # "idle" =>
                    calls'[c].shouldTrackRequest = calls[c].shouldTrackRequest
              /\ calls'[c].pc # "idle" =>
                    /\ calls'[c].shouldTrackRequest =
                          (calls'[c].trackerAtStart # "null" /\ ~SkipsTracking(calls'[c]))
                    /\ calls'[c].trackerAtStart = "null" =>
                          calls'[c].observations = <<>> /\ calls'[c].handleResultCalls = 0
                    /\ (calls'[c].shouldTrackRequest /\ calls'[c].pc = "awaitBuffer") =>
                          Len(calls'[c].observations) = 1 ]_vars

C20_Witness ==
    \E c \in Calls :
        /\ calls[c].trackerAtStart = "null"
        /\ calls[c].passedOptions = <<>>
        /\ metricsTracker = "tracker"
        /\ calls[c].pc = "awaitBuffer"
====
